---- MODULE Spec2Model ----
(***************************************************************************)
(* Model of the document degradation pipeline of pdf_quality_botV2.py:     *)
(* PDFCorruptor.process_pdf (one coroutine, followed statement by          *)
(* statement), PDFCorruptor.process_page and its three stages, and the     *)
(* rate-limited progress_callback that process_pdf_file injects.           *)
(***************************************************************************)
EXTENDS Integers, Sequences, FiniteSets, TLC

\* ------------------------------------------------------------------ bounds
MaxPages == 3          \* a source document has 0..MaxPages pages
MaxTick == 3           \* wall-clock readings span MaxTick+1 consecutive seconds
MaxDraw == 600         \* noise draws span -MaxDraw..MaxDraw units of 1/DrawScale
DrawScale == 2         \* a noise draw is a multiple of 1/DrawScale
ExtremeDraw == 1000000000   \* magnitude of an extreme noise draw, in the same units
MaxUpdates == 4        \* updates (messages, button presses) the bot handles
MaxDocPages == 1       \* an uploaded document has at most MaxDocPages pages
MaxInput == 310        \* magnitude of the integers the clamp is applied to
MaxTotal == 50         \* page counts the progress computation is applied to
MaxCalls == 4          \* invocations in a stream sent to the reporter

\* ------------------------------------------------------- program constants
MinInterval == 2       \* seconds between two progress emissions
DEFAULT_BLUR == 1
DEFAULT_SKEW == 0
DEFAULT_NOISE == 2
DEFAULT_QUALITY == 50
DEFAULT_DPI == 150

\* Parameter values a run is constructed with (0 disables the stage).
BlurChoices == {0, 5}
SkewChoices == {0, 10}
NoiseChoices == {0, 20}

\* time.time() readings.  last_update_time starts at 0 (the epoch); every
\* reading of the wall clock is at least MinInterval seconds after the epoch.
\* The wall clock is not monotonic: a later reading may be smaller.
Times == MinInterval .. (MinInterval + MaxTick)

\* Buffers a page iteration can hold.  "none" is an unbound name.
NoBuf == "none"
LocalNames == {"pix", "image", "pp_image", "processed_image", "img_bytes"}
PageSized == {"pixmap", "source", "blurred", "skewed", "noisy"}

VARIABLES
    pc,               \* position of the process_pdf coroutine
    srcPages,         \* number of pages of the source document
    blur_amount, skew_amount, noise_amount,
    hasCallback,      \* self.progress_callback is not None
    pdf_doc,          \* source handle: "unopened" | "open" | "closed"
    output_doc,       \* output handle: "unopened" | "open" | "closed"
    total_pages,
    page_num,
    outPages,         \* source page indices inserted into output_doc, in order
    refs,             \* local name -> buffer it is bound to
    applied,          \* stage calls of process_page for the current page
    saves,            \* number of completed output_doc.save calls
    written,          \* the output storage location has been written to
    savedPages,       \* page count of the document that was saved
    calls,            \* progress_callback invocations, in order
    last_update_time, \* last_update_time[0]
    susp,             \* points where control passed to the event loop
    stage_error,      \* stage whose exception reached the handler, or "none"
    exit,             \* "none" | "return" | "raise"
    success, pages_count,  \* the returned tuple
    \* one channel value through add_noise
    npc,              \* "off" | "start" | "drawn" | "done"
    px,               \* channel value of the input image
    draw,             \* the value np.random.normal produced for it, * DrawScale
    noisy,            \* channel value of the returned image
    \* the bot around the pipeline
    db,               \* user_settings: user -> row, or NoRow
    adjusting,        \* context.user_data['adjusting'] of each user
    menuShown,        \* a settings menu with its buttons has been sent
    lastInput,        \* what the last handle_text_input did
    pdf_path,         \* context.user_data['pdf_path'] of each user, 0 = unset
    files,            \* temporary files ever created: path -> content
    runlog,           \* activations of process_pdf_file, by run id
    history,          \* processing_history, in insertion order
    updates,          \* number of updates handled so far
    \* the clamp of handle_text_input, on its own
    cpc,              \* position: "start", "once", "twice"
    cparam,           \* parameter being set
    craw,             \* integer the user sent
    cvalue,           \* the clamped value
    ctwice,           \* the clamp of the clamped value
    \* the progress computation of process_pdf, on its own
    percent,          \* progress passed on the latest invocation
    prev_percent      \* progress passed on the invocation before it

vars == <<pc, srcPages, blur_amount, skew_amount, noise_amount, hasCallback,
          pdf_doc, output_doc, total_pages, page_num, outPages, refs, applied,
          saves, written, savedPages, calls, last_update_time, susp,
          stage_error, exit, success, pages_count, npc, px, draw, noisy,
          db, adjusting, menuShown, lastInput, pdf_path, files, runlog,
          history, updates, cpc, cparam, craw, cvalue, ctwice,
          percent, prev_percent>>

\* --------------------------------------------------- progress computation
\* int((page_num + 1) / total_pages * 100) in IEEE-754 binary64: the quotient
\* i/n is rounded to 53 bits (ties to even), the product with 100 is rounded
\* to 53 bits again, and int() truncates.  Only residues are needed to know
\* on which side of the exact value 100*i/n the result falls.
\* Pow2Mod(e, m) is 2^e mod m, by repeated squaring.
RECURSIVE Pow2Mod(_, _)
Pow2Mod(e, m) ==
    IF e = 0 THEN 1 % m
    ELSE LET h == Pow2Mod(e \div 2, m)
             sq == (h * h) % m
         IN  IF e % 2 = 0 THEN sq ELSE (2 * sq) % m

RECURSIVE Pow2(_)
Pow2(e) == IF e = 0 THEN 1 ELSE 2 * Pow2(e - 1)

\* least j with i * 2^j >= n: the quotient's mantissa is i * 2^(52+j) / n
RECURSIVE ShiftJ(_, _, _)
ShiftJ(i, n, j) == IF i * Pow2(j) >= n THEN j ELSE ShiftJ(i, n, j + 1)

\* Variant: the percentage is taken from the 0-based loop index.
Progress_FromIndex(i, n) == (100 * (i - 1)) \div n

Progress(i, n) ==
    LET j == ShiftJ(i, n, 0)
        e == 52 + j
        X == (i * Pow2Mod(e, n * 256)) % (n * 256)
        r == X % n                      \* remainder of the division
        m0 == X \div n                  \* low 8 bits of the truncated mantissa
        c == IF 2 * r > n \/ (2 * r = n /\ m0 % 2 = 1) THEN 1 ELSE 0
        ml == (m0 + c) % 256            \* low 8 bits of the rounded mantissa
        s == IF 25 * i * Pow2(j) >= 32 * n THEN 7 ELSE 6   \* bits dropped by * 100
        pl == (100 * ml) % Pow2(s + 1)
        rem == pl % Pow2(s)
        bit == pl \div Pow2(s)
        half == Pow2(s - 1)
        a == IF rem > half \/ (rem = half /\ bit = 1) THEN Pow2(s) - rem ELSE 0 - rem
        d == n * a + 100 * c * n - 100 * r   \* sign of (computed - exact)
        k == (100 * i) \div n
        f == (100 * i) % n
    IN  IF f = 0 /\ d < 0 THEN k - 1 ELSE k

\* ----------------------------------------------------------------- stages
\* Each stage returns its argument when its parameter is 0 and a new buffer
\* otherwise.
\* Variant: the blur stage has no early return for blur_amount = 0 (the radius
\* max(1, blur_amount) then blurs with radius 1).
add_blur_NoShortcut(image) == "blurred"

add_blur(image) == IF blur_amount = 0 THEN image ELSE "blurred"

add_skew(image) == IF skew_amount = 0 THEN image ELSE "skewed"

add_noise(image) == IF noise_amount = 0 THEN image ELSE "noisy"

\* Buffers reachable from some local name.
Live == {refs[n] : n \in LocalNames} \ {NoBuf}

LivePageSized == Live \cap PageSized

NoRefs == [n \in LocalNames |-> NoBuf]

\* Variable groups that the pipeline run does not use.
pixel == <<npc, px, draw, noisy>>

PixelIdle == npc = "off" /\ px = 0 /\ draw = 0 /\ noisy = 0

bot == <<db, adjusting, menuShown, lastInput, pdf_path, files, runlog,
         history, updates>>

\* Telegram users that talk to the bot.
Users == {1, 2}

\* No row in user_settings.
NoRow == [present |-> FALSE]

NoInput == [accepted |-> FALSE]

BotIdle ==
    /\ db = [u \in Users |-> NoRow]
    /\ adjusting = [u \in Users |-> "none"]
    /\ menuShown = FALSE
    /\ lastInput = NoInput
    /\ pdf_path = [u \in Users |-> 0]
    /\ files = <<>>
    /\ runlog = <<>>
    /\ history = <<>>
    /\ updates = 0

clampv == <<cpc, cparam, craw, cvalue, ctwice>>

ClampIdle ==
    /\ cpc = "idle" /\ cparam = "none"
    /\ craw = 0 /\ cvalue = 0 /\ ctwice = 0

percentv == <<percent, prev_percent>>

PercentIdle == percent = 0 /\ prev_percent = 0

\* ------------------------------------------------------------------- Init
Init ==
    /\ pc = "open_source"
    /\ srcPages \in 0 .. MaxPages
    /\ blur_amount \in BlurChoices
    /\ skew_amount \in SkewChoices
    /\ noise_amount \in NoiseChoices
    /\ hasCallback \in BOOLEAN
    /\ pdf_doc = "unopened"
    /\ output_doc = "unopened"
    /\ total_pages = 0
    /\ page_num = 0
    /\ outPages = <<>>
    /\ refs = NoRefs
    /\ applied = <<>>
    /\ saves = 0
    /\ written = FALSE
    /\ savedPages = 0
    /\ calls = <<>>
    /\ last_update_time = 0
    /\ susp = <<>>
    /\ stage_error = "none"
    /\ exit = "none"
    /\ success = FALSE
    /\ pages_count = 0
    /\ PixelIdle
    /\ BotIdle
    /\ ClampIdle
    /\ PercentIdle

config == <<srcPages, blur_amount, skew_amount, noise_amount, hasCallback,
            pixel, bot, clampv, percentv>>
handles == <<pdf_doc, output_doc>>
outcome == <<stage_error, exit, success, pages_count>>
output == <<outPages, saves, written, savedPages>>
reporter == <<calls, last_update_time, susp>>

\* Variant: the handler lets the exception leave the coroutine.
Handler_Reraise(stage) ==
    /\ pc' = "done"
    /\ stage_error' = stage
    /\ exit' = "raise"
    /\ success' = FALSE
    /\ pages_count' = 0

\* Variant: the handler never returns.
Handler_NoReturn(stage) ==
    /\ pc' = "handler"
    /\ stage_error' = stage
    /\ UNCHANGED <<exit, success, pages_count>>

\* ------------------------------------------------- the exception handler
\* except Exception: print, return False, 0.  Nothing is closed or released
\* by the handler; the names of the frame stay bound until it is discarded.
Handler(stage) ==
    /\ pc' = "done"
    /\ stage_error' = stage
    /\ exit' = "return"
    /\ success' = FALSE
    /\ pages_count' = 0

\* Variant: the loop stops one page early.
ForNext_SkipLast(p, total) == IF p < total - 1 THEN "get_pixmap" ELSE "save"

\* Position after the for statement has been (re)entered with index p.
ForNext(p, total) == IF p < total THEN "get_pixmap" ELSE "save"

\* pdf_doc = fitz.open(pdf_path)
OpenSource ==
    /\ pc = "open_source"
    /\ \E ok \in BOOLEAN :
         IF ok
         THEN /\ pdf_doc' = "open"
              /\ pc' = "open_output"
              /\ UNCHANGED outcome
         ELSE /\ Handler("open")
              /\ UNCHANGED pdf_doc
    /\ UNCHANGED <<config, output_doc, total_pages, page_num, refs, applied,
                   output, reporter>>

\* output_doc = fitz.open(); total_pages = len(pdf_doc); zoom; mat; for ...
OpenOutput ==
    /\ pc = "open_output"
    /\ \E ok \in BOOLEAN :
         IF ok
         THEN /\ output_doc' = "open"
              /\ total_pages' = srcPages
              /\ page_num' = 0
              /\ pc' = ForNext(0, srcPages)
              /\ UNCHANGED outcome
         ELSE /\ Handler("open")
              /\ UNCHANGED <<output_doc, total_pages, page_num>>
    /\ UNCHANGED <<config, pdf_doc, refs, applied, output, reporter>>

\* page = pdf_doc[page_num]; pix = page.get_pixmap(matrix=mat)
GetPixmap ==
    /\ pc = "get_pixmap"
    /\ \E ok \in BOOLEAN :
         IF ok
         THEN /\ refs' = [refs EXCEPT !["pix"] = "pixmap"]
              /\ pc' = "frombytes"
              /\ UNCHANGED outcome
         ELSE /\ Handler("rasterize")
              /\ UNCHANGED refs
    /\ UNCHANGED <<config, handles, total_pages, page_num, applied, output,
                   reporter>>

\* image = Image.frombytes("RGB", [pix.width, pix.height], pix.samples)
FromBytes ==
    /\ pc = "frombytes"
    /\ \E ok \in BOOLEAN :
         IF ok
         THEN /\ refs' = [refs EXCEPT !["image"] = "source"]
              /\ pc' = "blur"
              /\ UNCHANGED outcome
         ELSE /\ Handler("rasterize")
              /\ UNCHANGED refs
    /\ UNCHANGED <<config, handles, total_pages, page_num, applied, output,
                   reporter>>

\* process_page is entered with its parameter bound to the caller's image;
\* image = self.add_blur(image) rebinds the parameter only.
Blur ==
    /\ pc = "blur"
    /\ \E ok \in BOOLEAN :
         IF ok \/ blur_amount = 0
         THEN /\ refs' = [refs EXCEPT !["pp_image"] = add_blur(refs["image"])]
              /\ applied' = <<[stage |-> "blur", input |-> refs["image"],
                                output |-> add_blur(refs["image"])]>>
              /\ pc' = "skew"
              /\ UNCHANGED outcome
         ELSE /\ Handler("transform")
              /\ UNCHANGED <<refs, applied>>
    /\ UNCHANGED <<config, handles, total_pages, page_num, output, reporter>>

\* image = self.add_skew(image)
Skew ==
    /\ pc = "skew"
    /\ \E ok \in BOOLEAN :
         IF ok \/ skew_amount = 0
         THEN /\ refs' = [refs EXCEPT !["pp_image"] = add_skew(refs["pp_image"])]
              /\ applied' = Append(applied,
                                    [stage |-> "skew", input |-> refs["pp_image"],
                                     output |-> add_skew(refs["pp_image"])])
              /\ pc' = "noise"
              /\ UNCHANGED outcome
         ELSE /\ Handler("transform")
              /\ UNCHANGED <<refs, applied>>
    /\ UNCHANGED <<config, handles, total_pages, page_num, output, reporter>>

\* Variant: process_page blurs after the noise stage.
Noise_ThenBlur ==
    /\ pc = "noise"
    /\ \E ok \in BOOLEAN :
         IF ok \/ noise_amount = 0
         THEN /\ refs' = [refs EXCEPT
                            !["processed_image"] =
                                add_blur(add_noise(refs["pp_image"])),
                            !["pp_image"] = NoBuf]
              /\ applied' = applied \o
                    <<[stage |-> "noise", input |-> refs["pp_image"],
                       output |-> add_noise(refs["pp_image"])],
                      [stage |-> "blur", input |-> add_noise(refs["pp_image"]),
                       output |-> add_blur(add_noise(refs["pp_image"]))]>>
              /\ pc' = "del_image"
              /\ UNCHANGED outcome
         ELSE /\ Handler("transform")
              /\ UNCHANGED <<refs, applied>>
    /\ UNCHANGED <<config, handles, total_pages, page_num, output, reporter>>

\* image = self.add_noise(image); return image
\* processed_image = <the returned image>; the parameter dies with the call.
Noise ==
    /\ pc = "noise"
    /\ \E ok \in BOOLEAN :
         IF ok \/ noise_amount = 0
         THEN /\ refs' = [refs EXCEPT
                            !["processed_image"] = add_noise(refs["pp_image"]),
                            !["pp_image"] = NoBuf]
              /\ applied' = Append(applied,
                                    [stage |-> "noise", input |-> refs["pp_image"],
                                     output |-> add_noise(refs["pp_image"])])
              /\ pc' = "del_image"
              /\ UNCHANGED outcome
         ELSE /\ Handler("transform")
              /\ UNCHANGED <<refs, applied>>
    /\ UNCHANGED <<config, handles, total_pages, page_num, output, reporter>>

\* del image
DelImage ==
    /\ pc = "del_image"
    /\ refs' = [refs EXCEPT !["image"] = NoBuf]
    /\ pc' = "encode"
    /\ UNCHANGED <<config, handles, total_pages, page_num, applied, output,
                   reporter, outcome>>

\* img_bytes = io.BytesIO(); processed_image.save(img_bytes, 'JPEG', ...);
\* img_bytes.seek(0)
Encode ==
    /\ pc = "encode"
    /\ \E ok \in BOOLEAN :
         IF ok
         THEN /\ refs' = [refs EXCEPT !["img_bytes"] = "jpeg"]
              /\ pc' = "del_processed"
              /\ UNCHANGED outcome
         ELSE /\ Handler("encode")
              /\ UNCHANGED refs
    /\ UNCHANGED <<config, handles, total_pages, page_num, applied, output,
                   reporter>>

\* del processed_image
DelProcessed ==
    /\ pc = "del_processed"
    /\ refs' = [refs EXCEPT !["processed_image"] = NoBuf]
    /\ pc' = "insert"
    /\ UNCHANGED <<config, handles, total_pages, page_num, applied, output,
                   reporter, outcome>>

\* Variant: the output document is written to storage after every insert.
Insert_SavesEachPage ==
    /\ pc = "insert"
    /\ \E ok \in BOOLEAN :
         IF ok
         THEN /\ outPages' = Append(outPages, page_num)
              /\ written' = TRUE
              /\ pc' = "release"
              /\ UNCHANGED outcome
         ELSE /\ Handler("insert")
              /\ UNCHANGED <<outPages, written>>
    /\ UNCHANGED <<config, handles, total_pages, page_num, refs, applied,
                   saves, savedPages, reporter>>

\* new_page = output_doc.new_page(...); new_page.insert_image(...)
Insert ==
    /\ pc = "insert"
    /\ \E ok \in BOOLEAN :
         IF ok
         THEN /\ outPages' = Append(outPages, page_num)
              /\ pc' = "release"
              /\ UNCHANGED outcome
         ELSE /\ Handler("insert")
              /\ UNCHANGED outPages
    /\ UNCHANGED <<config, handles, total_pages, page_num, refs, applied,
                   saves, written, savedPages, reporter>>

\* Variant: the pixmap is not deleted at the end of the iteration.
Release_KeepsPixmap ==
    /\ pc = "release"
    /\ refs' = [refs EXCEPT !["img_bytes"] = NoBuf]
    /\ pc' = IF hasCallback THEN "callback" ELSE "yield"
    /\ UNCHANGED <<config, handles, total_pages, page_num, applied, output,
                   reporter, outcome>>

\* Variant: the callback is invoked without testing that one was supplied.
Release_AlwaysCalls ==
    /\ pc = "release"
    /\ refs' = [refs EXCEPT !["img_bytes"] = NoBuf, !["pix"] = NoBuf]
    /\ pc' = "callback"
    /\ UNCHANGED <<config, handles, total_pages, page_num, applied, output,
                   reporter, outcome>>

\* img_bytes.close(); del pix; if self.progress_callback: ...
Release ==
    /\ pc = "release"
    /\ refs' = [refs EXCEPT !["img_bytes"] = NoBuf, !["pix"] = NoBuf]
    /\ pc' = IF hasCallback THEN "callback" ELSE "yield"
    /\ UNCHANGED <<config, handles, total_pages, page_num, applied, output,
                   reporter, outcome>>

\* Variant: the final event is rate-limited like any other.
Suppressed_NoFinal(progress, current_time, last) ==
    current_time - last < MinInterval

\* Variant: the interval is compared one second short.
Suppressed_ShortInterval(progress, current_time, last) ==
    current_time - last < MinInterval - 1 /\ progress < 100

\* The rate limit of progress_callback:
\* if current_time - last_update_time[0] < 2 and progress < 100: return
Suppressed(progress, current_time, last) ==
    current_time - last < MinInterval /\ progress < 100

\* Variant: a suppressed invocation also records its time.
progress_callback_StampsSkipped(progress, current_page, total, current_time) ==
    IF Suppressed(progress, current_time, last_update_time)
    THEN /\ calls' = Append(calls, [progress |-> progress,
                                    current_page |-> current_page,
                                    total_pages |-> total,
                                    time |-> current_time, kind |-> "skip"])
         /\ last_update_time' = current_time
         /\ UNCHANGED susp
    ELSE /\ last_update_time' = current_time
         /\ calls' = Append(calls, [progress |-> progress,
                                    current_page |-> current_page,
                                    total_pages |-> total,
                                    time |-> current_time, kind |-> "emit"])
         /\ susp' = Append(susp, [page |-> current_page - 1, at |-> "callback",
                                  inserted |-> Len(outPages)])

\* process_pdf_file.progress_callback, reading current_time from the clock.
\* A suppressed invocation returns at once.  Otherwise last_update_time is
\* set and progress_msg.edit_text is awaited (control passes to the event
\* loop); a failure of the edit is caught inside the callback.
progress_callback(progress, current_page, total, current_time) ==
    IF Suppressed(progress, current_time, last_update_time)
    THEN /\ calls' = Append(calls, [progress |-> progress,
                                    current_page |-> current_page,
                                    total_pages |-> total,
                                    time |-> current_time, kind |-> "skip"])
         /\ UNCHANGED <<last_update_time, susp>>
    ELSE /\ last_update_time' = current_time
         /\ calls' = Append(calls, [progress |-> progress,
                                    current_page |-> current_page,
                                    total_pages |-> total,
                                    time |-> current_time, kind |-> "emit"])
         /\ susp' = Append(susp, [page |-> current_page - 1, at |-> "callback",
                                  inserted |-> Len(outPages)])

\* Variant: an exception of the callback reaches the handler of process_pdf.
PropagateCallbackError == Handler("progress")

\* except: pass  -- an exception of the awaited callback is dropped and the
\* coroutine goes on to the yield.
SwallowCallbackError ==
    /\ pc' = "yield"
    /\ UNCHANGED outcome

\* progress = int((page_num + 1) / total_pages * 100)
\* try: await self.progress_callback(progress, page_num + 1, total_pages)
\* except: pass
\* The injected callback is the reporter above, or any callable that raises.
Callback ==
    /\ pc = "callback"
    /\ LET progress == Progress(page_num + 1, total_pages) IN
       \E raises \in BOOLEAN :
         IF raises
         THEN /\ calls' = Append(calls, [progress |-> progress,
                                         current_page |-> page_num + 1,
                                         total_pages |-> total_pages,
                                         time |-> 0, kind |-> "raise"])
              /\ UNCHANGED <<last_update_time, susp>>
              /\ SwallowCallbackError
         ELSE /\ \E current_time \in Times :
                   progress_callback(progress, page_num + 1, total_pages,
                                     current_time)
              /\ pc' = "yield"
              /\ UNCHANGED outcome
    /\ UNCHANGED <<config, handles, total_pages, page_num, refs, applied,
                   output>>

\* Variant: no yield after the last page.
Yield_NotAfterLast ==
    /\ pc = "yield"
    /\ susp' = IF page_num + 1 < total_pages
               THEN Append(susp, [page |-> page_num, at |-> "yield",
                                  inserted |-> Len(outPages)])
               ELSE susp
    /\ page_num' = page_num + 1
    /\ pc' = ForNext(page_num + 1, total_pages)
    /\ UNCHANGED <<config, handles, total_pages, refs, applied, output,
                   calls, last_update_time, outcome>>

\* Variant: the loop index advances by two.
Yield_SkipsPage ==
    /\ pc = "yield"
    /\ susp' = Append(susp, [page |-> page_num, at |-> "yield",
                             inserted |-> Len(outPages)])
    /\ page_num' = page_num + 2
    /\ pc' = ForNext(page_num + 2, total_pages)
    /\ UNCHANGED <<config, handles, total_pages, refs, applied, output,
                   calls, last_update_time, outcome>>

\* await asyncio.sleep(0); the for statement advances
Yield ==
    /\ pc = "yield"
    /\ susp' = Append(susp, [page |-> page_num, at |-> "yield",
                             inserted |-> Len(outPages)])
    /\ page_num' = page_num + 1
    /\ pc' = ForNext(page_num + 1, total_pages)
    /\ UNCHANGED <<config, handles, total_pages, refs, applied, output,
                   calls, last_update_time, outcome>>

\* output_doc.save(output_path, garbage=4, deflate=True, clean=True)
\* A failing save may already have written part of the file.
Save ==
    /\ pc = "save"
    /\ \E ok \in BOOLEAN :
         IF ok
         THEN /\ saves' = saves + 1
              /\ written' = TRUE
              /\ savedPages' = Len(outPages)
              /\ pc' = "close"
              /\ UNCHANGED outcome
         ELSE /\ Handler("save")
              /\ written' \in BOOLEAN
              /\ UNCHANGED <<saves, savedPages>>
    /\ UNCHANGED <<config, handles, total_pages, page_num, outPages, refs,
                   applied, reporter>>

\* pages_count = len(pdf_doc); pdf_doc.close(); output_doc.close()
\* return True, pages_count
Close ==
    /\ pc = "close"
    /\ pages_count' = srcPages
    /\ pdf_doc' = "closed"
    /\ output_doc' = "closed"
    /\ success' = TRUE
    /\ exit' = "return"
    /\ pc' = "done"
    /\ UNCHANGED <<config, total_pages, page_num, refs, applied, output,
                   reporter, stage_error>>

Next ==
    \/ OpenSource
    \/ OpenOutput
    \/ GetPixmap
    \/ FromBytes
    \/ Blur
    \/ Skew
    \/ Noise
    \/ DelImage
    \/ Encode
    \/ DelProcessed
    \/ Insert
    \/ Release
    \/ Callback
    \/ Yield
    \/ Save
    \/ Close

Spec == Init /\ [][Next]_vars

\* Every stage call and every callback call returns or raises, and the event
\* loop resumes the coroutine after each suspension.
FairSpec == Spec /\ WF_vars(Next)

TypeOK ==
    /\ pc \in {"open_source", "open_output", "get_pixmap", "frombytes", "blur",
               "skew", "noise", "del_image", "encode", "del_processed",
               "insert", "release", "callback", "yield", "save", "close",
               "done"}
    /\ srcPages \in 0 .. MaxPages
    /\ pdf_doc \in {"unopened", "open", "closed"}
    /\ output_doc \in {"unopened", "open", "closed"}
    /\ page_num \in 0 .. MaxPages
    /\ \A n \in LocalNames : refs[n] \in PageSized \cup {"jpeg", NoBuf}
    /\ exit \in {"none", "return", "raise"}
    /\ success \in BOOLEAN

\* ============================================== add_noise on one channel
\* The pipeline variables while no run of process_pdf is in progress.
PipelineIdle ==
    /\ pc = "idle"
    /\ srcPages = 0 /\ hasCallback = FALSE
    /\ pdf_doc = "unopened" /\ output_doc = "unopened"
    /\ total_pages = 0 /\ page_num = 0
    /\ outPages = <<>> /\ refs = NoRefs /\ applied = <<>>
    /\ saves = 0 /\ written = FALSE /\ savedPages = 0
    /\ calls = <<>> /\ last_update_time = 0 /\ susp = <<>>
    /\ stage_error = "none" /\ exit = "none"
    /\ success = FALSE /\ pages_count = 0

pipeline == <<pc, srcPages, hasCallback, pdf_doc, output_doc, total_pages,
              page_num, outPages, refs, applied, saves, written, savedPages,
              calls, last_update_time, susp, stage_error, exit, success,
              pages_count>>

\* Channel values and noise parameters the function is applied to.
ChannelSamples == {0, 1, 127, 128, 254, 255}
NoiseAmounts == {0, 1, 20, 50}
Draws == (-MaxDraw .. MaxDraw) \cup {-ExtremeDraw, ExtremeDraw}

\* Variant: only the lower bound is clipped.
np_clip_NoUpper(x, lo, hi) == IF x < lo THEN lo ELSE x

\* np.clip(x, lo, hi), on values scaled by DrawScale
np_clip(x, lo, hi) == IF x < lo THEN lo ELSE IF x > hi THEN hi ELSE x

\* .astype(np.uint8) of a value scaled by DrawScale: the fraction is dropped
\* (toward zero) and the integer is kept modulo 256.
astype_uint8(x) ==
    LET t == IF x >= 0 THEN x \div DrawScale ELSE 0 - ((0 - x) \div DrawScale)
    IN  t % 256

\* noisy = np.clip(img_array + noise, 0, 255).astype(np.uint8), one channel
add_noise_channel(v, d) ==
    astype_uint8(np_clip(v * DrawScale + d, 0, 255 * DrawScale))

InitNoise ==
    /\ PipelineIdle
    /\ BotIdle
    /\ ClampIdle
    /\ PercentIdle
    /\ blur_amount = 0 /\ skew_amount = 0
    /\ noise_amount \in NoiseAmounts
    /\ npc = "start"
    /\ px \in ChannelSamples
    /\ draw = 0
    /\ noisy = 0

\* if self.noise_amount == 0: return image
NoiseReturnInput ==
    /\ npc = "start"
    /\ noise_amount = 0
    /\ noisy' = px
    /\ npc' = "done"
    /\ UNCHANGED <<bot, clampv, percentv, pipeline, blur_amount, skew_amount, noise_amount, px, draw>>

\* noise = np.random.normal(0, self.noise_amount, img_array.shape)
NoiseDraw ==
    /\ npc = "start"
    /\ noise_amount # 0
    /\ draw' \in Draws
    /\ npc' = "drawn"
    /\ UNCHANGED <<bot, clampv, percentv, pipeline, blur_amount, skew_amount, noise_amount, px, noisy>>

\* noisy = np.clip(img_array + noise, 0, 255).astype(np.uint8)
NoiseClip ==
    /\ npc = "drawn"
    /\ noisy' = add_noise_channel(px, draw)
    /\ npc' = "done"
    /\ UNCHANGED <<bot, clampv, percentv, pipeline, blur_amount, skew_amount, noise_amount, px, draw>>

NextNoise == NoiseReturnInput \/ NoiseDraw \/ NoiseClip

SpecNoise == InitNoise /\ [][NextNoise]_vars

\* ======================================== the progress value on its own
\* progress = int((page_num + 1) / total_pages * 100), computed for every
\* page of a document of 1 .. MaxTotal pages, in loop order.
InitProgress ==
    /\ pc = "progress"
    /\ srcPages \in 1 .. MaxTotal
    /\ total_pages = srcPages
    /\ page_num = 0
    /\ hasCallback = TRUE
    /\ pdf_doc = "open" /\ output_doc = "open"
    /\ outPages = <<>> /\ refs = NoRefs /\ applied = <<>>
    /\ saves = 0 /\ written = FALSE /\ savedPages = 0
    /\ calls = <<>> /\ last_update_time = 0 /\ susp = <<>>
    /\ stage_error = "none" /\ exit = "none"
    /\ success = FALSE /\ pages_count = 0
    /\ blur_amount = 0 /\ skew_amount = 0 /\ noise_amount = 0
    /\ PixelIdle
    /\ BotIdle
    /\ ClampIdle
    /\ PercentIdle

\* One iteration of the loop, reduced to the progress computation.
ComputeProgress ==
    /\ pc = "progress"
    /\ page_num < total_pages
    /\ percent' = Progress(page_num + 1, total_pages)
    /\ prev_percent' = percent
    /\ page_num' = page_num + 1
    /\ UNCHANGED <<pc, srcPages, blur_amount, skew_amount, noise_amount,
                   hasCallback, pixel, bot, clampv, handles, total_pages, refs,
                   applied, output, reporter, outcome>>

NextProgress == ComputeProgress

SpecProgress == InitProgress /\ [][NextProgress]_vars

\* ============================================== the reporter on its own
\* The closure progress_callback of one activation of process_pdf_file,
\* invoked as process_pdf invokes it: once per page, in page order, each time
\* at some reading of the clock.
InitReporter ==
    /\ pc = "reporter"
    /\ srcPages \in 1 .. MaxCalls
    /\ total_pages = srcPages
    /\ page_num = 0
    /\ hasCallback = TRUE
    /\ pdf_doc = "open" /\ output_doc = "open"
    /\ outPages = <<>> /\ refs = NoRefs /\ applied = <<>>
    /\ saves = 0 /\ written = FALSE /\ savedPages = 0
    /\ calls = <<>> /\ last_update_time = 0 /\ susp = <<>>
    /\ stage_error = "none" /\ exit = "none"
    /\ success = FALSE /\ pages_count = 0
    /\ blur_amount = 0 /\ skew_amount = 0 /\ noise_amount = 0
    /\ PixelIdle
    /\ BotIdle
    /\ ClampIdle
    /\ PercentIdle

Invoke ==
    /\ pc = "reporter"
    /\ page_num < total_pages
    /\ \E current_time \in Times :
         progress_callback(Progress(page_num + 1, total_pages), page_num + 1,
                           total_pages, current_time)
    /\ page_num' = page_num + 1
    /\ UNCHANGED <<pc, config, handles, total_pages, refs, applied, output,
                   outcome>>

NextReporter == Invoke

SpecReporter == InitReporter /\ [][NextReporter]_vars

\* ====================================================== the bot handlers
\* Updates are handled one at a time: the Application is built without
\* concurrent_updates and every handler is registered blocking, so a handler
\* runs to completion, through all its awaits, before the next update is
\* dispatched.
NumericParams == {"blur", "skew", "noise", "quality", "dpi"}

\* Integers a user may send as text.
InputInts == {-1000, 15, 100, 1000}

\* Range each prompt of adjust_parameter announces.
ValidLo(param) ==
    CASE param = "blur" -> 0
      [] param = "skew" -> -45
      [] param = "noise" -> 0
      [] param = "quality" -> 10
      [] param = "dpi" -> 72

ValidHi(param) ==
    CASE param = "blur" -> 20
      [] param = "skew" -> 45
      [] param = "noise" -> 50
      [] param = "quality" -> 100
      [] param = "dpi" -> 300

InValidRange(param, v) == ValidLo(param) <= v /\ v <= ValidHi(param)

Max(a, b) == IF a >= b THEN a ELSE b
Min(a, b) == IF a <= b THEN a ELSE b

\* Variant: the lower bound is not applied.
Clamp_NoLower(param, value) ==
    CASE param = "blur" -> Min(20, value)
      [] param = "skew" -> Min(45, value)
      [] param = "noise" -> Min(50, value)
      [] param = "quality" -> Min(100, value)
      [] param = "dpi" -> Min(300, value)

\* Variant: the blur clamp starts at 1.
Clamp_BlurFromOne(param, value) ==
    CASE param = "blur" -> Max(1, Min(20, value))
      [] param = "skew" -> Max(-45, Min(45, value))
      [] param = "noise" -> Max(0, Min(50, value))
      [] param = "quality" -> Max(10, Min(100, value))
      [] param = "dpi" -> Max(72, Min(300, value))

\* value = max(lo, min(hi, value)) of each branch of handle_text_input
Clamp(param, value) ==
    CASE param = "blur" -> Max(0, Min(20, value))
      [] param = "skew" -> Max(-45, Min(45, value))
      [] param = "noise" -> Max(0, Min(50, value))
      [] param = "quality" -> Max(10, Min(100, value))
      [] param = "dpi" -> Max(72, Min(300, value))

\* The row get_settings inserts for a user without one.
DefaultRow ==
    [present |-> TRUE, blur |-> DEFAULT_BLUR, skew |-> DEFAULT_SKEW,
     noise |-> DEFAULT_NOISE, quality |-> DEFAULT_QUALITY, dpi |-> DEFAULT_DPI,
     filename_prefix |-> "corrupted_"]

\* Database.get_settings: the table afterwards (a missing row is inserted) ...
get_settings_db(d, u) == IF d[u].present THEN d ELSE [d EXCEPT ![u] = DefaultRow]

\* ... and the settings it returns.
get_settings(d, u) == get_settings_db(d, u)[u]

\* Database.update_settings: UPDATE ... WHERE user_id = ?, which changes
\* nothing when the user has no row.
update_settings(d, u, key, value) ==
    IF d[u].present THEN [d EXCEPT ![u][key] = value] ELSE d

\* Content of a temporary file.
Deleted == [state |-> "deleted", pages |-> 0]
EmptyFile == [state |-> "empty", pages |-> 0]
Garbage == [state |-> "garbage", pages |-> 0]
Pdf(n) == [state |-> "pdf", pages |-> n]

\* Documents a user may upload under a .pdf name.
Uploads == {Garbage} \cup {Pdf(n) : n \in 1 .. MaxDocPages}

\* Everything of one pipeline run; the handlers below see a run only through
\* its activation record in runlog.
engine == <<pipeline, blur_amount, skew_amount, noise_amount, pixel,
           percentv>>

\* ---------------------------------------------- the clamp as a function
\* Each numeric branch of handle_text_input computes value = max(lo, min(hi,
\* int(text))).  Here the clamp is applied to every integer of a range that
\* holds all ten range ends, and then to its own result.
InitClamp ==
    /\ PipelineIdle
    /\ blur_amount = 0 /\ skew_amount = 0 /\ noise_amount = 0
    /\ PixelIdle
    /\ BotIdle
    /\ cpc = "start"
    /\ cparam \in NumericParams
    /\ craw \in -MaxInput .. MaxInput
    /\ cvalue = 0 /\ ctwice = 0
    /\ PercentIdle

ClampOnce ==
    /\ cpc = "start"
    /\ cvalue' = Clamp(cparam, craw)
    /\ cpc' = "once"
    /\ UNCHANGED <<bot, engine, cparam, craw, ctwice>>

ClampTwice ==
    /\ cpc = "once"
    /\ ctwice' = Clamp(cparam, cvalue)
    /\ cpc' = "twice"
    /\ UNCHANGED <<bot, engine, cparam, craw, cvalue>>

NextClamp == ClampOnce \/ ClampTwice

SpecClamp == InitClamp /\ [][NextClamp]_vars

InitBot ==
    /\ PipelineIdle
    /\ blur_amount = 0 /\ skew_amount = 0 /\ noise_amount = 0
    /\ PixelIdle
    /\ BotIdle
    /\ ClampIdle
    /\ PercentIdle

InProgress(i) == runlog[i].phase # "finished"

\* Variant: updates are dispatched while a handler is still running.
CanDispatch_Concurrent == TRUE

\* The next update is dispatched once the handler of the previous one returned.
CanDispatch == \A i \in DOMAIN runlog : ~InProgress(i)

\* start: get_settings, get_user_stats, reply
Start(u) ==
    /\ updates < MaxUpdates
    /\ CanDispatch
    /\ updates' = updates + 1
    /\ db' = get_settings_db(db, u)
    /\ UNCHANGED <<adjusting, menuShown, lastInput, pdf_path, files, runlog,
                   history>>
    /\ UNCHANGED <<engine, clampv>>

\* handle_pdf, for a document that passes the name and size tests: the
\* temporary file is created, then the download either fails (the file stays,
\* pdf_path is not set) or is written to it; then get_settings and the menu.
HandlePdf(u) ==
    /\ updates < MaxUpdates
    /\ CanDispatch
    /\ updates' = updates + 1
    /\ \E downloaded \in BOOLEAN, content \in Uploads :
         IF downloaded
         THEN /\ files' = Append(files, content)
              /\ pdf_path' = [pdf_path EXCEPT ![u] = Len(files) + 1]
              /\ db' = get_settings_db(db, u)
              /\ menuShown' = TRUE
         ELSE /\ files' = Append(files, EmptyFile)
              /\ UNCHANGED <<pdf_path, db, menuShown>>
    /\ UNCHANGED <<adjusting, lastInput, runlog, history>>
    /\ UNCHANGED <<engine, clampv>>

\* adjust_parameter for one of the six parameter buttons
AdjustParameter(u) ==
    /\ updates < MaxUpdates
    /\ CanDispatch
    /\ menuShown
    /\ updates' = updates + 1
    /\ \E param \in NumericParams \cup {"filename"} :
         adjusting' = [adjusting EXCEPT ![u] = param]
    /\ UNCHANGED <<db, menuShown, lastInput, pdf_path, files, runlog, history>>
    /\ UNCHANGED <<engine, clampv>>

\* adjust_parameter for the cancel button: os.unlink(pdf_path) inside try
Cancel(u) ==
    /\ updates < MaxUpdates
    /\ CanDispatch
    /\ menuShown
    /\ updates' = updates + 1
    /\ files' = IF pdf_path[u] # 0
                THEN [files EXCEPT ![pdf_path[u]] = Deleted]
                ELSE files
    /\ UNCHANGED <<db, adjusting, menuShown, lastInput, pdf_path, runlog,
                   history>>
    /\ UNCHANGED <<engine, clampv>>

\* handle_text_input while a parameter is being adjusted.  The text is a
\* prefix, an integer, or something int() rejects (ValueError: only a reply).
\* The confirmation is sent after update_settings; if sending it fails the
\* handler ends there, before 'adjusting' is cleared.
HandleTextInput(u) ==
    /\ updates < MaxUpdates
    /\ CanDispatch
    /\ adjusting[u] # "none"
    /\ updates' = updates + 1
    /\ \/ /\ adjusting[u] = "filename"
          /\ \E prefix \in {"bad_"}, replied \in BOOLEAN :
               LET d1 == update_settings(db, u, "filename_prefix", prefix) IN
               IF replied
               THEN /\ db' = get_settings_db(d1, u)
                    /\ adjusting' = [adjusting EXCEPT ![u] = "none"]
                    /\ menuShown' = TRUE
               ELSE /\ db' = d1
                    /\ UNCHANGED <<adjusting, menuShown>>
          /\ lastInput' = NoInput
       \/ /\ adjusting[u] \in NumericParams
          /\ \E numeric \in BOOLEAN :
               IF ~numeric
               THEN /\ lastInput' = NoInput
                    /\ UNCHANGED <<db, adjusting, menuShown>>
               ELSE \E raw \in InputInts, replied \in BOOLEAN :
                      LET value == Clamp(adjusting[u], raw)
                          d1 == update_settings(db, u, adjusting[u], value)
                      IN  IF replied
                          THEN /\ db' = get_settings_db(d1, u)
                               /\ adjusting' = [adjusting EXCEPT ![u] = "none"]
                               /\ menuShown' = TRUE
                               /\ lastInput' = [accepted |-> TRUE, user |-> u,
                                                param |-> adjusting[u],
                                                raw |-> raw, value |-> value,
                                                hadRow |-> db[u].present]
                          ELSE /\ db' = d1
                               /\ lastInput' = NoInput
                               /\ UNCHANGED <<adjusting, menuShown>>
    /\ UNCHANGED <<pdf_path, files, runlog, history>>
    /\ UNCHANGED <<engine, clampv>>

\* adjust_parameter for the process button, into process_pdf_file up to the
\* await of process_pdf: get_settings, PDFCorruptor(...), mkstemp.
ProcessPdfFile(u) ==
    /\ updates < MaxUpdates
    /\ CanDispatch
    /\ menuShown
    /\ updates' = updates + 1
    /\ db' = get_settings_db(db, u)
    /\ files' = Append(files, EmptyFile)
    /\ runlog' = Append(runlog,
                        [user |-> u, src |-> pdf_path[u], out |-> Len(files) + 1,
                         params |-> get_settings(db, u), phase |-> "running",
                         done |-> 0, success |-> FALSE, pages |-> 0,
                         delivered |-> FALSE])
    /\ UNCHANGED <<adjusting, menuShown, lastInput, pdf_path, history>>
    /\ UNCHANGED <<engine, clampv>>

\* The source of run i opens as a document.
Opens(i) == runlog[i].src # 0 /\ files[runlog[i].src].state = "pdf"

\* Pages of the source of run i: len(pdf_doc).
SourcePages(i) == IF Opens(i) THEN files[runlog[i].src].pages ELSE 0

\* process_pdf, one page: the page is rendered, degraded and inserted and the
\* coroutine yields, or a step raises and (False, 0) is returned.
PipelinePage(i) ==
    /\ i \in DOMAIN runlog
    /\ runlog[i].phase = "running"
    /\ Opens(i)
    /\ runlog[i].done < SourcePages(i)
    /\ \E ok \in BOOLEAN :
         runlog' = IF ok
                   THEN [runlog EXCEPT ![i].done = @ + 1]
                   ELSE [runlog EXCEPT ![i].phase = "returned"]
    /\ UNCHANGED <<db, adjusting, menuShown, lastInput, pdf_path, files,
                   history, updates>>
    /\ UNCHANGED <<engine, clampv>>

\* process_pdf, the end: the source does not open (with no pdf_path an empty
\* document is opened, which cannot be saved), or all pages are done and the
\* output is saved.  It returns (True, total_pages) after a save and
\* (False, 0) otherwise.
PipelineReturn(i) ==
    /\ i \in DOMAIN runlog
    /\ runlog[i].phase = "running"
    /\ \/ ~Opens(i)
       \/ runlog[i].done = SourcePages(i)
    /\ \E ok \in BOOLEAN :
         IF ok /\ Opens(i)
         THEN /\ files' = [files EXCEPT ![runlog[i].out] = Pdf(runlog[i].done)]
              /\ runlog' = [runlog EXCEPT ![i].phase = "returned",
                                          ![i].success = TRUE,
                                          ![i].pages = runlog[i].done]
         ELSE /\ runlog' = [runlog EXCEPT ![i].phase = "returned"]
              /\ UNCHANGED files
    /\ UNCHANGED <<db, adjusting, menuShown, lastInput, pdf_path, history,
                   updates>>
    /\ UNCHANGED <<engine, clampv>>

\* os.unlink of the output and of the source after the if/else; with no
\* pdf_path the test of the source raises after the output is gone.
Unlinked(i) ==
    LET f1 == [files EXCEPT ![runlog[i].out] = Deleted]
    IN  IF runlog[i].src = 0 THEN f1 ELSE [f1 EXCEPT ![runlog[i].src] = Deleted]

\* Variant: the history row is written whether or not the run succeeded.
Deliver_AlwaysSaves(i) ==
    /\ i \in DOMAIN runlog
    /\ runlog[i].phase = "returned"
    /\ \E sent \in BOOLEAN :
         /\ runlog' = [runlog EXCEPT ![i].phase = "finished",
                                     ![i].delivered = sent /\ runlog[i].success]
         /\ history' = Append(history, [run |-> i, user |-> runlog[i].user,
                                        pages |-> runlog[i].pages])
         /\ files' = IF sent THEN Unlinked(i) ELSE files
    /\ UNCHANGED <<db, adjusting, menuShown, lastInput, pdf_path, updates>>
    /\ UNCHANGED <<engine, clampv>>

\* process_pdf_file after process_pdf returned.  On success the document is
\* sent, the progress message deleted and save_history called; on failure the
\* message is edited.  Then both files are unlinked.  If one of the awaited
\* calls raises, the except branch only reports: no history, no unlink.
Deliver(i) ==
    /\ i \in DOMAIN runlog
    /\ runlog[i].phase = "returned"
    /\ \E sent \in BOOLEAN :
         /\ runlog' = [runlog EXCEPT ![i].phase = "finished",
                                     ![i].delivered = sent /\ runlog[i].success]
         /\ history' = IF sent /\ runlog[i].success
                       THEN Append(history, [run |-> i, user |-> runlog[i].user,
                                             pages |-> runlog[i].pages])
                       ELSE history
         /\ files' = IF sent THEN Unlinked(i) ELSE files
    /\ UNCHANGED <<db, adjusting, menuShown, lastInput, pdf_path, updates>>
    /\ UNCHANGED <<engine, clampv>>

NextBot ==
    \/ \E u \in Users :
         \/ Start(u)
         \/ HandlePdf(u)
         \/ AdjustParameter(u)
         \/ Cancel(u)
         \/ HandleTextInput(u)
         \/ ProcessPdfFile(u)
    \/ \E i \in 1 .. MaxUpdates :
         \/ PipelinePage(i)
         \/ PipelineReturn(i)
         \/ Deliver(i)

SpecBot == InitBot /\ [][NextBot]_vars

\* ================================================================= claims
\* Stages whose failure is a stage error of the run.
StageNames == {"open", "rasterize", "transform", "encode", "insert", "save"}

Returned == pc = "done" /\ exit = "return"

\* C1: on every exit path of process_pdf both document handles that were
\* opened during the run are closed when process_pdf returns.
C1_HandlesClosedOnExit ==
    pc = "done" => (pdf_doc # "open" /\ output_doc # "open")

\* C2: a stage error at any point is not propagated; process_pdf returns
\* exactly (False, 0), and it returns True only if no stage error occurred.
C2_StageErrorCollapses ==
    /\ exit # "raise"
    /\ stage_error \in StageNames =>
         (Returned /\ success = FALSE /\ pages_count = 0)
    /\ (pc = "done" /\ success) => stage_error = "none"

\* a run that failed while encoding its second page
C2_Witness ==
    Returned /\ stage_error = "encode" /\ page_num = 1 /\ Len(outPages) = 1

\* C3: a progress callback that raises on any of its invocations does not
\* abort the run: when no stage fails, all N pages are processed and the
\* result is (True, N).
C3_ReporterFailureSwallowed ==
    (pc = "done" /\ stage_error \notin StageNames) =>
        /\ exit = "return"
        /\ success
        /\ pages_count = srcPages
        /\ Len(outPages) = srcPages

\* Scenario D: three pages, the callback raised on every invocation
C3_Witness ==
    /\ Returned /\ success /\ pages_count = 3
    /\ Len(calls) = 3
    /\ \A i \in 1 .. 3 : calls[i].kind = "raise"

\* C4: in a successful run over N pages with a callback, the callback is
\* invoked exactly N times, the i-th invocation carries currentPage = i and
\* totalPages = N, and the last one carries 100 percent, whatever the rate
\* limiter did.
C4_OneCallPerPage ==
    (Returned /\ success /\ hasCallback) =>
        /\ Len(calls) = srcPages
        /\ \A i \in 1 .. Len(calls) :
             /\ calls[i].current_page = i
             /\ calls[i].total_pages = srcPages
        /\ srcPages > 0 => calls[srcPages].progress = 100

\* a successful three-page run whose second invocation was rate-limited
C4_Witness ==
    /\ Returned /\ success /\ hasCallback
    /\ Len(calls) = 3
    /\ calls[1].kind = "emit" /\ calls[2].kind = "skip"

\* C5: when process_pdf returns success, the saved output document holds
\* exactly the source's pages, one per source page in source order, and the
\* returned page count is that number.
C5_PageCountPreserved ==
    (pc = "done" /\ success) =>
        /\ saves = 1
        /\ savedPages = srcPages
        /\ pages_count = srcPages
        /\ outPages = [i \in 1 .. srcPages |-> i - 1]

C5_Witness == Returned /\ success /\ savedPages = 3

\* C6: if the run fails at open, rasterize, transform, encode or insert, the
\* save step is not executed and the output location is never written.
C6_NoPartialOutput ==
    stage_error \in {"open", "rasterize", "transform", "encode", "insert"} =>
        (written = FALSE /\ saves = 0 /\ success = FALSE /\ pages_count = 0)

\* a failure of the insert of the second page, one page already inserted
C6_Witness ==
    Returned /\ stage_error = "insert" /\ Len(outPages) = 1 /\ ~written

\* C7: every invocation of the rate-limited progress_callback with
\* progress = 100 attempts an emission, whatever the time since the last one.
C7_FinalAlwaysEmits ==
    \A i \in 1 .. Len(calls) :
        (calls[i].progress = 100 /\ calls[i].kind # "raise") =>
            calls[i].kind = "emit"

\* a 100 percent emission less than MinInterval after the previous emission
C7_Witness ==
    /\ Len(calls) >= 2
    /\ LET n == Len(calls) IN
         /\ calls[n].progress = 100 /\ calls[n].kind = "emit"
         /\ calls[n - 1].kind = "emit"
         /\ calls[n].time - calls[n - 1].time < MinInterval

\* C8: two emissions of one run with progress below 100 are at least
\* MinInterval seconds apart.
C8_RateLimit ==
    \A i, j \in 1 .. Len(calls) :
        (/\ i < j
         /\ calls[i].kind = "emit" /\ calls[i].progress < 100
         /\ calls[j].kind = "emit" /\ calls[j].progress < 100) =>
            calls[j].time - calls[i].time >= MinInterval

\* two emissions below 100 percent exactly MinInterval apart
C8_Witness ==
    /\ Len(calls) >= 2
    /\ calls[1].kind = "emit" /\ calls[1].progress < 100
    /\ calls[2].kind = "emit" /\ calls[2].progress < 100
    /\ calls[2].time - calls[1].time = MinInterval

\* Number of suspensions logged for page p at point w.
SuspCount(p, w) ==
    Cardinality({i \in 1 .. Len(susp) : susp[i].page = p /\ susp[i].at = w})

C10_AtMostTwoPageBuffers == Cardinality(LivePageSized) <= 2

\* C11: no per-page buffer survives its page iteration: when the callback is
\* invoked, when the coroutine yields and when the next page is rasterized,
\* every buffer of the pages processed so far has been released.
C11_NoBufferAcrossPages ==
    pc \in {"callback", "yield", "get_pixmap", "save", "close"} => Live = {}

\* the callback is reached for the second page of a run with all stages on
C11_Witness ==
    /\ pc = "callback" /\ page_num = 1 /\ Len(outPages) = 2
    /\ blur_amount # 0 /\ skew_amount # 0 /\ noise_amount # 0
    /\ Live = {}

\* The order of process_page.
StageOrder == <<"blur", "skew", "noise">>

StageParam(st) ==
    CASE st = "blur" -> blur_amount
      [] st = "skew" -> skew_amount
      [] st = "noise" -> noise_amount

\* C12: for every page and every parameter combination process_page applies
\* the stages in the order blur, skew, noise, each on the output of the one
\* before it, and exactly the stages whose parameter is not 0 change the image.
C12_StageOrder ==
    /\ Len(applied) <= 3
    /\ \A i \in 1 .. Len(applied) :
         /\ applied[i].stage = StageOrder[i]
         /\ i > 1 => applied[i].input = applied[i - 1].output
         /\ StageParam(applied[i].stage) # 0 =>
              applied[i].output # applied[i].input
    /\ pc \in {"del_image", "encode", "del_processed", "insert", "release"} =>
         Len(applied) = 3

\* a page on which all three stages ran
C12_Witness ==
    /\ pc = "del_image" /\ page_num = 1
    /\ Len(applied) = 3
    /\ applied[1].output = "blurred"
    /\ applied[2].output = "skewed"
    /\ applied[3].output = "noisy"

\* C13: a stage whose parameter is 0 returns its input, and process_page with
\* all three parameters 0 returns the image it was given.
C13_ZeroIsIdentity ==
    /\ \A i \in 1 .. Len(applied) :
         StageParam(applied[i].stage) = 0 =>
             applied[i].output = applied[i].input
    /\ (/\ pc = "del_image"
        /\ blur_amount = 0 /\ skew_amount = 0 /\ noise_amount = 0) =>
           (refs["processed_image"] = refs["image"] /\ refs["image"] = "source")

\* process_page has returned with all three parameters 0
C13_Witness ==
    /\ pc = "del_image"
    /\ blur_amount = 0 /\ skew_amount = 0 /\ noise_amount = 0
    /\ Len(applied) = 3
    /\ refs["processed_image"] = "source"

\* C17: without a progress callback no reporter invocation happens, the
\* coroutine still yields once after each page, and a source whose stages all
\* succeed gives (True, N).
C17_NoCallbackIsNoOp ==
    ~hasCallback =>
        /\ calls = <<>>
        /\ pc # "callback"
        /\ last_update_time = 0
        /\ \A p \in 0 .. MaxPages :
             /\ SuspCount(p, "callback") = 0
             /\ SuspCount(p, "yield") = (IF p < page_num THEN 1 ELSE 0)
        /\ (pc = "done" /\ stage_error \notin StageNames) =>
             (exit = "return" /\ success /\ pages_count = srcPages)

\* a successful three-page run without callback: three yields, no call
C17_Witness ==
    /\ ~hasCallback /\ Returned /\ success /\ pages_count = 3
    /\ Len(susp) = 3 /\ calls = <<>>

\* C20: under FairSpec every run eventually returns, with (True, N) or with
\* (False, 0).
C20_RunTerminates ==
    <>(/\ pc = "done" /\ exit = "return"
       /\ \/ (success /\ pages_count = srcPages /\ stage_error = "none")
          \/ (~success /\ pages_count = 0 /\ stage_error \in StageNames))

\* a run that ended in Failed at the save, after all pages were processed
C20_Witness ==
    /\ Returned /\ ~success /\ stage_error = "save"
    /\ srcPages = 3 /\ page_num = 3

\* C14: for every noise_amount in 1..50, every channel value in 0..255 and
\* every noise draw, the channel value add_noise returns lies in [0, 255]; it
\* is the saturated sum, never a wrapped one.
C14_NoiseClamped ==
    (npc = "done" /\ noise_amount # 0) =>
        /\ noisy \in 0 .. 255
        /\ px * DrawScale + draw >= 255 * DrawScale => noisy = 255
        /\ px * DrawScale + draw <= 0 => noisy = 0

\* the brightest channel value with an extreme positive draw
C14_Witness ==
    /\ npc = "done" /\ noise_amount = 50
    /\ px = 255 /\ draw = ExtremeDraw /\ noisy = 255

\* C15: every activation of process_pdf_file constructed its PDFCorruptor
\* with blur in [0,20], skew in [-45,45], noise in [0,50], quality in
\* [10,100] and dpi in [72,300], whatever edits and get_settings came before;
\* the stored rows, which are where the parameters come from, are in range too.
C15_ParamsInRange ==
    /\ \A i \in DOMAIN runlog : \A p \in NumericParams :
         InValidRange(p, runlog[i].params[p])
    /\ \A u \in Users : db[u].present =>
         \A p \in NumericParams : InValidRange(p, db[u][p])

\* A run was started with dpi 300 after its user had sent 1000 for the dpi.
C15_Witness ==
    \E i \in DOMAIN runlog :
        /\ lastInput.accepted
        /\ lastInput.user = runlog[i].user
        /\ lastInput.param = "dpi" /\ lastInput.raw = 1000
        /\ runlog[i].params.dpi = 300

\* C16: for each of the five parameters the clamp returns an integer of the
\* valid range unchanged, and the clamp of a clamped value is that value.
C16_ClampIdempotent ==
    cpc = "twice" =>
        /\ InValidRange(cparam, craw) => cvalue = craw
        /\ ctwice = cvalue

\* The clamp was applied twice to a quality just below its range.
C16_Witness ==
    /\ cpc = "twice"
    /\ cparam = "quality" /\ craw = 9 /\ cvalue = 10 /\ ctwice = 10

C19_HistoryAfterSuccess ==
    [][ /\ history' # history =>
             \E i \in DOMAIN runlog :
                 /\ runlog[i].phase = "returned" /\ runlog[i].success
                 /\ runlog'[i].phase = "finished"
                 /\ history' = Append(history,
                                      [run |-> i, user |-> runlog[i].user,
                                       pages |-> runlog[i].pages])
                 /\ \A k \in DOMAIN history : history[k].run # i
        /\ (\E i \in DOMAIN runlog :
                runlog[i].phase = "running" /\ runlog'[i] # runlog[i]) =>
             (db' = db /\ history' = history) ]_vars

\* One run failed and wrote nothing; another returned (True, 1) and its row
\* with 1 page is the whole history.
C19_Witness ==
    \E i, j \in DOMAIN runlog :
        /\ runlog[i].phase = "finished" /\ ~runlog[i].success
        /\ runlog[j].phase = "finished" /\ runlog[j].success
        /\ runlog[j].pages = 1
        /\ history = <<[run |-> j, user |-> runlog[j].user, pages |-> 1]>>

IsYield(e) == e.at = "yield"

\* Pages after which the coroutine has yielded, in order.
Yields == SelectSeq(susp, IsYield)

\* C21: pages are handled in increasing index order, each once; within a page
\* the order is rasterize, transform, encode, insert, callback, yield; page
\* i+1 is rasterized only after the yield of page i; the output is saved once,
\* after the yield of the last page, and success is returned after the save.
C21_EventOrder ==
    /\ \A k \in DOMAIN outPages : outPages[k] = k - 1
    /\ \A k \in DOMAIN Yields : Yields[k].page = k - 1
    /\ \A k \in DOMAIN calls : calls[k].current_page = k
    /\ saves <= 1
    /\ pc \in {"get_pixmap", "frombytes", "blur", "skew", "noise", "del_image",
               "encode", "del_processed", "insert"} =>
         /\ page_num < total_pages
         /\ Len(outPages) = page_num /\ Len(Yields) = page_num
         /\ hasCallback => Len(calls) = page_num
         /\ saves = 0
    /\ pc \in {"blur", "skew", "noise", "del_image", "encode", "del_processed",
               "insert"} => refs["pix"] = "pixmap"
    /\ pc \in {"del_image", "encode"} =>
         Len(applied) = 3 /\ refs["processed_image"] # NoBuf
    /\ pc \in {"del_processed", "insert"} => refs["img_bytes"] = "jpeg"
    /\ pc \in {"release", "callback"} =>
         /\ Len(outPages) = page_num + 1 /\ Len(Yields) = page_num
         /\ hasCallback => Len(calls) = page_num
         /\ saves = 0
    /\ pc = "yield" =>
         /\ Len(outPages) = page_num + 1 /\ Len(Yields) = page_num
         /\ hasCallback => Len(calls) = page_num + 1
         /\ saves = 0
    /\ pc = "save" =>
         /\ page_num = total_pages
         /\ Len(outPages) = total_pages /\ Len(Yields) = total_pages
         /\ saves = 0
    /\ pc = "close" => saves = 1 /\ Len(Yields) = total_pages
    /\ success => saves = 1 /\ savedPages = total_pages

\* A three-page run with a callback returned success after its single save.
C21_Witness ==
    /\ Returned /\ success /\ hasCallback
    /\ srcPages = 3 /\ Len(calls) = 3 /\ Len(Yields) = 3 /\ saves = 1

\* C22: for a source of N >= 1 pages the progress passed on the i-th
\* invocation is floor(100*i/N); the values never decrease, lie in 0..100 and
\* are below 100 on every invocation but the last.
C22_ProgressIsFloor ==
    (pc = "progress" /\ page_num >= 1) =>
        /\ percent = (100 * page_num) \div total_pages
        /\ prev_percent <= percent
        /\ percent \in 0 .. 100
        /\ page_num < total_pages => percent < 100

\* Invocations before the k-th that emitted.
EmitsBefore(k) == {j \in 1 .. (k - 1) : calls[j].kind = "emit"}

\* Clock reading of the last emission before the k-th invocation; 0, the
\* initial last_update_time, when there was none.
LastEmitBefore(k) ==
    IF EmitsBefore(k) = {} THEN 0
    ELSE calls[CHOOSE j \in EmitsBefore(k) :
                   \A m \in EmitsBefore(k) : m <= j].time

\* C23: last_update_time is the clock reading of the latest invocation that
\* emitted (a suppressed invocation does not move it); an invocation emits
\* exactly when at least 2 seconds separate it from the last emission or its
\* progress is 100; and the first invocation emits.
C23_StampOnlyOnEmit ==
    /\ last_update_time = LastEmitBefore(Len(calls) + 1)
    /\ \A k \in DOMAIN calls :
         calls[k].kind = "emit" <=>
             \/ calls[k].time - LastEmitBefore(k) >= MinInterval
             \/ calls[k].progress = 100
    /\ calls # <<>> => calls[1].kind = "emit"

\* Invocations at seconds 2, 3, 4 of a four-page run: the second is suppressed
\* and the third, two seconds after the first and below 100, emits.
C23_Witness ==
    /\ pc = "reporter" /\ Len(calls) = 3
    /\ calls[1].kind = "emit" /\ calls[1].time = MinInterval
    /\ calls[2].kind = "skip" /\ calls[2].time = MinInterval + 1
    /\ calls[3].kind = "emit" /\ calls[3].time = MinInterval + 2
    /\ calls[3].progress < 100

\* C24: once an activation of process_pdf_file has finished, by whichever
\* path, the output file it created and the source file it read are deleted.
C24_TempFilesDeleted ==
    \A i \in DOMAIN runlog :
        runlog[i].phase = "finished" =>
            /\ files[runlog[i].out].state = "deleted"
            /\ runlog[i].src # 0 => files[runlog[i].src].state = "deleted"

\* C25: after handle_text_input has accepted an integer for a numeric
\* parameter of a user and left the adjusting mode, get_settings for that user
\* returns the clamped integer for that parameter, whether or not the user had
\* a settings row before.
C25_EditTakesEffect ==
    lastInput.accepted =>
        get_settings(db, lastInput.user)[lastInput.param]
            = Clamp(lastInput.param, lastInput.raw)

====
